---- MODULE Spec2Model ----
(***************************************************************************)
(* CATI interview queue: startCatiInterview (queue initialization and      *)
(* claim), makeCallToRespondent, abandonInterview, completeCatiInterview.  *)
(* Every handler is an async function; each of its database operations is  *)
(* one step of a request, and requests of different callers interleave     *)
(* between steps.  A Mongoose document is loaded into the request (doc),   *)
(* changed locally, and save() writes back only the paths whose value      *)
(* differs from the loaded one.                                            *)
(***************************************************************************)
EXTENDS Integers, Sequences, FiniteSets, TLC

\* ---- bounds ------------------------------------------------------------
MaxTime == 3          \* requests accepted in one run
MaxCompleteTime == 5  \* the same, in the runs of start and complete alone
MaxContacts == 2      \* contacts on a survey's respondent list

\* clock ticks between two requests: the documents of one insertMany can
\* get successive timestamps that all precede the next request
Tick == MaxContacts

Surveys == {1, 2}
Interviewers == {1, 2}
Phones == {1, 2}
Reqs == {1, 2}        \* request slots: up to two handlers in flight

\* contact lists a survey starts with, and spreadsheets uploaded later
\* (survey 2 has a single contact)
ContactLists(s) == IF s = 1 THEN {<<1>>, <<1, 1>>} ELSE {<<1>>}
Files(s) == IF s = 1 THEN {<<1, 2>>} ELSE {}

\* ---- program constants -------------------------------------------------
LowestPriority == -1
CallLaterPriority == 10
DefaultPriority == 0

NoOwner == 0

VARIABLES
  contacts,     \* survey.respondentContacts: [Surveys -> Seq(Phones)]
  phoneOnFile,  \* User.phone present: [Interviewers -> BOOLEAN]
  queue,        \* CatiRespondentQueue collection, _id = index
  sessions,     \* InterviewSession collection, sessionId = index
  responses,    \* SurveyResponse collection, _id = index
  setData,      \* SetData collection
  qcBatch,      \* responses handed to addResponseToBatch, in call order
  now,          \* new Date()
  req,          \* in-flight requests
  gen,          \* history: how many times each entry has become pending
  behind,       \* history: <<a, b>> when a's call failed while b, newer and of
                \* the same priority 0, was pending, and b is pending ever since
  initRuns,     \* history: the contact lists of a survey's first two initializations
  lastCompletes \* history: the last two complete requests that wrote a response

vars == <<contacts, phoneOnFile, queue, sessions, responses, setData, qcBatch,
          now, req, gen, behind, initRuns, lastCompletes>>

\* ---- documents ---------------------------------------------------------
NoDoc == [id |-> 0]

NewEntry(s, p, t) ==
  [survey |-> s, phone |-> p, status |-> "pending", priority |-> DefaultPriority,
   assignedTo |-> NoOwner, createdAt |-> t, currentAttemptNumber |-> 0,
   callAttempts |-> <<>>, callRecord |-> 0, callLaterDate |-> 0,
   response |-> 0, completedAt |-> 0]

ScalarPaths == {"survey", "phone", "status", "priority", "assignedTo", "createdAt",
                "currentAttemptNumber", "callRecord", "callLaterDate", "response",
                "completedAt"}

Idle == [op |-> "none", pc |-> "idle", by |-> 0, survey |-> 0, qid |-> 0,
         doc |-> NoDoc, newContacts |-> <<>>, reason |-> "none", date |-> 0,
         sid |-> 0, res |-> "none", seenGen |-> 0,
         payload |-> NoDoc, rid |-> 0, rdoc |-> NoDoc, shown |-> "none",
         handOffs |-> 0, rejected |-> FALSE, exhausted |-> FALSE,
         rejectionInfo |-> {}, message |-> "none"]

Free(r) == req[r].pc \in {"idle", "done"}
InFlight == {r \in Reqs : ~Free(r)}
\* a new request takes the lowest free slot
Slot(r) == Free(r) /\ \A o \in Reqs : o < r => ~Free(o)

\* the response is sent: the slot keeps who asked for what and the result
Finish(r, result) ==
  [Idle EXCEPT !.op = req[r].op, !.pc = "done", !.by = req[r].by,
               !.survey = req[r].survey, !.qid = req[r].qid,
               !.seenGen = req[r].seenGen, !.sid = req[r].sid,
               !.rid = req[r].rid, !.reason = req[r].reason,
               !.date = req[r].date, !.payload = req[r].payload,
               !.handOffs = req[r].handOffs, !.rejected = req[r].rejected,
               !.exhausted = req[r].exhausted,
               !.res = result]

\* a request refused before it touched anything
Refuse(op, result) == [Idle EXCEPT !.op = op, !.pc = "done", !.res = result]

\* history bookkeeping for a new queue value
GenAfter(q) ==
  [e \in DOMAIN q |->
     IF e \in DOMAIN queue
     THEN IF q[e].status = "pending" /\ queue[e].status # "pending"
          THEN gen[e] + 1 ELSE gen[e]
     ELSE 1]

\* document.save(): $set of the scalar paths that differ from the loaded
\* document; array paths are handled by the caller
SaveDoc(db, loaded, local) ==
  [f \in DOMAIN db |->
     IF f \in ScalarPaths /\ local[f] # loaded[f] THEN local[f] ELSE db[f]]

\* history bookkeeping: failed is the entry whose call has just failed, or 0
BehindAfter(q, failed) ==
  {p \in behind : p[1] # failed /\ q[p[2]].status = "pending"}
  \cup (IF failed # 0 /\ queue[failed].priority = DefaultPriority
        THEN {<<failed, b>> : b \in {o \in DOMAIN q :
                 /\ o # failed
                 /\ q[o].survey = q[failed].survey
                 /\ q[o].status = "pending"
                 /\ q[o].priority = DefaultPriority
                 /\ q[o].createdAt > queue[failed].createdAt}}
        ELSE {})

\* history bookkeeping: request r writes a response, creating it or not
Completing(r, created) ==
  LET entry == [sid |-> req[r].sid, qid |-> req[r].qid, created |-> created]
  IN lastCompletes' = IF lastCompletes = <<>> THEN <<entry>>
                      ELSE <<lastCompletes[Len(lastCompletes)], entry>>

History(failed) ==
  /\ gen' = GenAfter(queue')
  /\ behind' = BehindAfter(queue', failed)

\* ---- Init --------------------------------------------------------------
Init ==
  /\ contacts \in {c \in [Surveys -> UNION {ContactLists(s) : s \in Surveys}] :
                      \A s \in Surveys : c[s] \in ContactLists(s)}
  /\ phoneOnFile = [i \in Interviewers |-> TRUE]
  /\ queue = <<>>
  /\ sessions = <<>>
  /\ responses = <<>>
  /\ setData = <<>>
  /\ qcBatch = <<>>
  /\ now = 0
  /\ req = [r \in Reqs |-> Idle]
  /\ gen = <<>>
  /\ behind = {}
  /\ initRuns = [s \in Surveys |-> <<>>]
  /\ lastCompletes = <<>>

\* ---- contact ingestion (RespondentUpload.handleUpload) -------------------
RECURSIVE FilterSeq(_, _)
FilterSeq(seq, drop) ==
  IF seq = <<>> THEN <<>>
  ELSE IF Head(seq) \in drop THEN FilterSeq(Tail(seq), drop)
       ELSE <<Head(seq)>> \o FilterSeq(Tail(seq), drop)

Range(seq) == {seq[k] : k \in DOMAIN seq}

UploadContacts(s, file) ==
  LET uniqueNewContacts == FilterSeq(file, Range(contacts[s]))
  IN /\ uniqueNewContacts # <<>>
     /\ Len(contacts[s]) + Len(uniqueNewContacts) <= MaxContacts
     /\ contacts' = [contacts EXCEPT ![s] = contacts[s] \o uniqueNewContacts]
     /\ UNCHANGED <<phoneOnFile, queue, sessions, responses, setData, qcBatch, now, req, gen, behind, initRuns, lastCompletes>>

\* ---- startCatiInterview ------------------------------------------------
PendingOf(s) == {e \in DOMAIN queue : queue[e].survey = s /\ queue[e].status = "pending"}
EntriesOf(s) == {e \in DOMAIN queue : queue[e].survey = s}

\* lines 136-213 and initializeRespondentQueue's reads (1316-1344)
StartRead(r, i, s, limit, budget) ==
  /\ Slot(r)
  /\ Cardinality(InFlight) < limit
  /\ now < budget * Tick
  /\ LET base == [Idle EXCEPT !.op = "start", !.by = i, !.survey = s]
         existingPhones == {queue[e].phone : e \in EntriesOf(s)}
         newContacts == FilterSeq(contacts[s], existingPhones)
     IN IF contacts[s] = <<>>
        THEN req' = [req EXCEPT ![r] = Refuse("start", "no_contacts")] /\ now' = now
        ELSE /\ now' = now + Tick
             /\ req' = [req EXCEPT ![r] =
                  IF PendingOf(s) # {}
                  THEN [base EXCEPT !.pc = "find"]
                  ELSE [base EXCEPT !.pc = "init_write", !.newContacts = newContacts,
                                    !.exhausted = (newContacts = <<>>)]]
  /\ initRuns' = IF contacts[s] # <<>> /\ Len(initRuns[s]) < 2
                 THEN [initRuns EXCEPT ![s] = Append(initRuns[s], contacts[s])]
                 ELSE initRuns
  /\ UNCHANGED <<contacts, phoneOnFile, queue, sessions, responses, setData, qcBatch, gen, behind, lastCompletes>>

\* updateMany of 1349-1361
ResetQueue(s) ==
  [e \in DOMAIN queue |->
     IF queue[e].survey = s /\ queue[e].status # "interview_success"
     THEN [queue[e] EXCEPT !.status = "pending", !.assignedTo = NoOwner]
     ELSE queue[e]]

\* insertMany of 1367-1384; the documents get their createdAt either in the
\* same millisecond (spread = 0) or in successive ones (spread = 1)
InsertMany(s, newContacts, spread) ==
  queue \o [k \in 1..Len(newContacts) |->
              NewEntry(s, newContacts[k], now + spread * (k - 1))]

initializeRespondentQueue(r) ==
  /\ req[r].pc = "init_write"
  /\ LET s == req[r].survey
         nc == req[r].newContacts
     IN IF nc = <<>>
        THEN queue' = ResetQueue(s)
        ELSE \E spread \in {0, 1} : queue' = InsertMany(s, nc, spread)
  /\ History(0)
  /\ req' = [req EXCEPT ![r].pc = "find", ![r].newContacts = <<>>]
  /\ UNCHANGED <<contacts, phoneOnFile, sessions, responses, setData, qcBatch, now, initRuns, lastCompletes>>

\* .sort({ priority: -1, createdAt: 1 }): a sorts strictly before b
SortsBefore(a, b) ==
  \/ queue[a].priority > queue[b].priority
  \/ /\ queue[a].priority = queue[b].priority
     /\ queue[a].createdAt < queue[b].createdAt

\* a findOne that takes the newest entry of the highest priority
NextRespondentNewest(s) ==
  {e \in PendingOf(s) : \A o \in PendingOf(s) :
     /\ queue[o].priority <= queue[e].priority
     /\ queue[o].priority = queue[e].priority => queue[o].createdAt <= queue[e].createdAt}

\* findOne({survey, status: 'pending'}).sort(...): the first of the sorted
\* matches; the store breaks ties between equal keys arbitrarily
NextRespondent(s) ==
  {e \in PendingOf(s) : \A o \in PendingOf(s) : ~SortsBefore(o, e)}

\* lines 215-233
ClaimFind(r) ==
  /\ req[r].pc = "find"
  /\ LET s == req[r].survey
     IN IF NextRespondent(s) = {}
        THEN req' = [req EXCEPT ![r] = Finish(r, "no_pending")]
        ELSE \E e \in NextRespondent(s) :
               req' = [req EXCEPT ![r].pc = "assign", ![r].qid = e,
                                  ![r].doc = queue[e], ![r].seenGen = gen[e]]
  /\ UNCHANGED <<contacts, phoneOnFile, queue, sessions, responses, setData, qcBatch, now, gen, behind, initRuns, lastCompletes>>

\* lines 235-310: save the assignment, then the interviewer phone check and
\* the session
ClaimSave(r) ==
  /\ req[r].pc = "assign"
  /\ LET e == req[r].qid
         i == req[r].by
         local == [req[r].doc EXCEPT !.status = "assigned", !.assignedTo = i]
     IN /\ queue' = [queue EXCEPT ![e] = SaveDoc(queue[e], req[r].doc, local)]
        /\ IF ~phoneOnFile[i]
           THEN /\ req' = [req EXCEPT ![r] = Finish(r, "no_phone")]
                /\ UNCHANGED sessions
           ELSE /\ sessions' = Append(sessions,
                      [interviewer |-> i, survey |-> req[r].survey, queueId |-> e])
                /\ req' = [req EXCEPT ![r] =
                      [Finish(r, "handed") EXCEPT !.sid = Len(sessions) + 1]]
  /\ History(0)
  /\ UNCHANGED <<contacts, phoneOnFile, responses, setData, qcBatch, now, initRuns, lastCompletes>>

\* ---- makeCallToRespondent ----------------------------------------------
\* a check that lets every caller place the call
callRefusalOpen(q, i) ==
  IF q \notin DOMAIN queue THEN "not_found"
  ELSE IF ~phoneOnFile[i] THEN "no_phone"
  ELSE "none"

\* lines 339-361: the refusals of makeCallToRespondent.  Reading assignedTo._id of an unassigned entry (347) throws
\* into the catch block of 458-499, whose requeue reads interviewerId, a
\* const of the try block, at 479: that throws again before save(), so the
\* entry is left as it was and the answer is the 500 of 490
callRefusal(q, i) ==
  IF q \notin DOMAIN queue THEN "not_found"
  ELSE IF queue[q].assignedTo = NoOwner THEN "error"
  ELSE IF queue[q].assignedTo # i THEN "forbidden"
  ELSE IF ~phoneOnFile[i] THEN "no_phone"
  ELSE "none"

\* lines 329-361
CallLoad(r, i, q, limit, budget) ==
  /\ Slot(r)
  /\ Cardinality(InFlight) < limit
  /\ now < budget * Tick
  /\ LET base == [Idle EXCEPT !.op = "call", !.by = i, !.qid = q]
         refused == callRefusal(q, i)
     IN IF refused # "none"
        THEN req' = [req EXCEPT ![r] = Refuse("call", refused)] /\ now' = now
        ELSE /\ now' = now + Tick
             /\ req' = [req EXCEPT ![r] = [base EXCEPT !.pc = "call_api", !.doc = queue[q]]]
  /\ UNCHANGED <<contacts, phoneOnFile, queue, sessions, responses, setData, qcBatch, gen, behind, initRuns, lastCompletes>>

\* a requeue that only releases the entry
RequeueInPlace(doc) ==
  [doc EXCEPT !.status = "pending", !.assignedTo = NoOwner,
              !.currentAttemptNumber = doc.currentAttemptNumber + 1]

\* a requeue that does not count the attempt
RequeueUncounted(doc) ==
  [doc EXCEPT !.status = "pending", !.priority = LowestPriority,
              !.assignedTo = NoOwner, !.createdAt = now]

\* the requeue of 372-392: back to pending at the tail
Requeue(doc) ==
  [doc EXCEPT !.status = "pending", !.priority = LowestPriority,
              !.assignedTo = NoOwner,
              !.currentAttemptNumber = doc.currentAttemptNumber + 1,
              !.createdAt = now]

\* save() of a document with one callAttempts.push(): $set of the changed
\* scalar paths and $push of the new attempt
SaveWithPush(db, loaded, local, attempt) ==
  [SaveDoc(db, loaded, local) EXCEPT !.callAttempts = Append(db.callAttempts, attempt)]

Attempt(n, st, why) == [attemptNumber |-> n, status |-> st, reason |-> why, callId |-> 0]

\* what the telephony provider does with the request: it accepts the call,
\* answers with an error status or code, answers without a call id, answers
\* with a non-2xx HTTP status, or does not answer within the timeout
ApiResponses == {"accepted", "error_status", "no_call_id", "http_error", "timeout"}

\* a provider answer whose call id is not passed on
initiateDeepCallAnonymous(apiResponse) ==
  [success |-> apiResponse = "accepted", callId |-> 0, message |-> "none"]

\* initiateDeepCall, lines 18-132: every failure, thrown ones included, is
\* returned as success false with the most specific message
initiateDeepCall(apiResponse) ==
  IF apiResponse = "accepted"
  THEN [success |-> TRUE, callId |-> 1, message |-> "none"]
  ELSE [success |-> FALSE, callId |-> 0,
        message |-> IF apiResponse = "error_status" THEN "apiResponse.message"
                    ELSE IF apiResponse = "no_call_id"
                    THEN "API response does not contain call ID"
                    ELSE IF apiResponse = "http_error" THEN "error.response.data.message"
                    ELSE "error.message"]

\* lines 368-456: the provider answers, the entry is saved
CallResult(r, apiResponse) ==
  /\ req[r].pc = "call_api"
  /\ LET e == req[r].qid
         doc == req[r].doc
         callResult == initiateDeepCall(apiResponse)
         failed == Requeue(doc)
         calling == [doc EXCEPT !.status = "calling", !.callRecord = 1,
                                !.currentAttemptNumber = doc.currentAttemptNumber + 1]
     IN IF callResult.success
        THEN /\ queue' = [queue EXCEPT ![e] = SaveWithPush(queue[e], doc, calling,
                            [Attempt(calling.currentAttemptNumber, "initiated", "none")
                               EXCEPT !.callId = callResult.callId])]
             /\ req' = [req EXCEPT ![r] = Finish(r, "ok")]
        ELSE /\ queue' = [queue EXCEPT ![e] = SaveWithPush(queue[e], doc, failed,
                            Attempt(failed.currentAttemptNumber, "failed", callResult.message))]
             /\ req' = [req EXCEPT ![r] =
                   [Finish(r, "call_failed") EXCEPT !.message = callResult.message]]
  /\ History(IF initiateDeepCall(apiResponse).success THEN 0 ELSE req[r].qid)
  /\ UNCHANGED <<contacts, phoneOnFile, sessions, responses, setData, qcBatch, now, initRuns, lastCompletes>>

\* ---- abandonInterview --------------------------------------------------
TerminalReasons == {"not_interested", "busy", "no_answer", "switched_off",
                    "not_reachable", "does_not_exist", "rejected"}

\* a table that keeps a reason it does not know as the status
statusMapOpen(reason) ==
  IF reason \in {"technical_issue", "other", "none"} THEN "call_failed" ELSE reason

\* lines 531-544; "none" is an absent reason
statusMap(reason) ==
  IF reason = "call_later" THEN "call_later"
  ELSE IF reason \in TerminalReasons THEN reason
  ELSE "call_failed"

\* a check that lets every caller abandon an existing entry
abandonRefusalOpen(q, i) == IF q \notin DOMAIN queue THEN "not_found" ELSE "none"

\* lines 513-527: the refusals of abandonInterview
abandonRefusal(q, i) ==
  IF q \notin DOMAIN queue THEN "not_found"
  ELSE IF queue[q].assignedTo # NoOwner /\ queue[q].assignedTo # i THEN "forbidden"
  ELSE "none"

\* lines 505-527
AbandonLoad(r, i, q, reason, date, limit, budget) ==
  /\ Slot(r)
  /\ Cardinality(InFlight) < limit
  /\ now < budget * Tick
  /\ LET base == [Idle EXCEPT !.op = "abandon", !.by = i, !.qid = q,
                              !.reason = reason, !.date = date]
         refused == abandonRefusal(q, i)
     IN IF refused # "none"
        THEN req' = [req EXCEPT ![r] = Refuse("abandon", refused)] /\ now' = now
        ELSE /\ now' = now + Tick
             /\ req' = [req EXCEPT ![r] =
                  [base EXCEPT !.pc = "abandon_save", !.doc = queue[q]]]
  /\ UNCHANGED <<contacts, phoneOnFile, queue, sessions, responses, setData, qcBatch, gen, behind, initRuns, lastCompletes>>

\* an abandon whose call_later branch leaves the priority alone
AbandonedNoBoost(doc, reason, date) ==
  LET newStatus == statusMap(reason)
  IN IF (reason = "call_later" /\ date # 0) \/ newStatus = "call_failed"
     THEN [doc EXCEPT !.status = "pending", !.assignedTo = NoOwner]
     ELSE [doc EXCEPT !.status = newStatus]

\* lines 546-562
Abandoned(doc, reason, date) ==
  LET newStatus == statusMap(reason)
  IN IF reason = "call_later" /\ date # 0
     THEN [doc EXCEPT !.status = "pending", !.priority = CallLaterPriority,
                      !.assignedTo = NoOwner, !.callLaterDate = date]
     ELSE IF newStatus = "call_failed"
     THEN [doc EXCEPT !.status = "pending", !.assignedTo = NoOwner]
     ELSE [doc EXCEPT !.status = newStatus]

\* lines 564-575; a changed last attempt is a positional $set, which
\* Mongoose guards with the document version (one increment per $push):
\* the save throws VersionError when an attempt was pushed since the load
AbandonSave(r) ==
  /\ req[r].pc = "abandon_save"
  /\ LET e == req[r].qid
         doc == req[r].doc
         n == Len(doc.callAttempts)
         local == Abandoned(doc, req[r].reason, req[r].date)
         last == IF n > 0
                 THEN [doc.callAttempts[n] EXCEPT !.status = statusMap(req[r].reason),
                                                  !.reason = req[r].reason]
                 ELSE Attempt(0, "none", "none")
         touched == n > 0 /\ last # doc.callAttempts[n]
     IN IF touched /\ Len(queue[e].callAttempts) # n
        THEN /\ req' = [req EXCEPT ![r] = Finish(r, "error")]
             /\ UNCHANGED queue
        ELSE /\ queue' = [queue EXCEPT ![e] =
                  [SaveDoc(queue[e], doc, local) EXCEPT !.callAttempts =
                     IF touched THEN [queue[e].callAttempts EXCEPT ![n] = last]
                     ELSE queue[e].callAttempts]]
             /\ req' = [req EXCEPT ![r] = Finish(r, "ok")]
  /\ History(0)
  /\ UNCHANGED <<contacts, phoneOnFile, sessions, responses, setData, qcBatch, now, initRuns, lastCompletes>>


\* ---- autoRejectionHelper -----------------------------------------------
MinDuration == 180

\* the survey whose id is TARGET_SURVEY_ID
TargetSurvey == 1

\* lines 1431-1436 and 1477-1480: the question texts the includes() and ===
\* tests accept, among the texts the answer sheets below use
isPhoneQuestion(questionText) ==
  questionText \in {"your mobile number", "alternate phone number"}

\* an answer's response value is a string, kept as its sequence of
\* characters, or a number; "" and 0 are falsy
Truthy(value) ==
  IF value.type = "string" THEN value.chars # <<>> ELSE value.n # 0

\* Number.prototype.toString for the numbers below 100
toString(n) ==
  LET digit == [d \in 0..9 |-> <<"0", "1", "2", "3", "4", "5", "6", "7", "8", "9">>[d + 1]]
  IN IF n < 10 THEN <<digit[n]>> ELSE <<digit[n \div 10], digit[n % 10]>>

\* the characters /\s+/g, /-/g, /\(/g and /\)/g remove
Kept(c) == c \notin {" ", "-", "(", ")"}

\* lines 1450-1455 and 1495-1500
cleanPhone(phoneValue) ==
  IF phoneValue.type = "string" THEN SelectSeq(phoneValue.chars, Kept)
  ELSE toString(phoneValue.n)

\* String.prototype.toLowerCase over the alphabet of the answer sheets
toLowerCase(str) ==
  [k \in DOMAIN str |-> CASE str[k] = "A" -> "a"
                          [] str[k] = "E" -> "e"
                          [] str[k] = "O" -> "o"
                          [] str[k] = "R" -> "r"
                          [] OTHER -> str[k]]

\* lines 1427-1456: the cleaned answer to the first phone question of the
\* evaluated response, <<>> when there is none
phoneNumberOf(answers) ==
  LET asked == {k \in DOMAIN answers : isPhoneQuestion(answers[k].questionText)}
  IN IF asked = {} THEN <<>>
     ELSE LET phoneResponse == answers[CHOOSE k \in asked : \A o \in asked : k <= o]
          IN IF Truthy(phoneResponse.response)
             THEN cleanPhone(phoneResponse.response) ELSE <<>>

\* lines 1462-1466
otherResponses(surveyResponse, surveyId) ==
  {o \in DOMAIN responses :
     /\ responses[o].survey = surveyId
     /\ responses[o].id # surveyResponse.id
     /\ responses[o].status \in {"Pending_Approval", "Approved", "Rejected"}}

\* lines 1469-1513: some answer of some other response to a phone question
\* cleans to the same number
duplicatePhone(surveyResponse, phoneNumber, surveyId) ==
  \E o \in otherResponses(surveyResponse, surveyId) :
     \E k \in DOMAIN responses[o].responses :
        LET resp == responses[o].responses[k]
        IN /\ isPhoneQuestion(resp.questionText)
           /\ Truthy(resp.response)
           /\ cleanPhone(resp.response) # <<>>
           /\ toLowerCase(cleanPhone(resp.response)) = toLowerCase(phoneNumber)

\* checkAutoRejection, lines 1410-1536: the conditions met
checkAutoRejection(surveyResponse, answers, surveyId) ==
  (IF surveyResponse.totalTimeSpent # 0 /\ surveyResponse.totalTimeSpent < MinDuration
   THEN {"duration"} ELSE {})
  \cup
  (IF /\ surveyId = TargetSurvey
      /\ phoneNumberOf(answers) # <<>>
      /\ duplicatePhone(surveyResponse, phoneNumberOf(answers), surveyId)
   THEN {"duplicate_phone"} ELSE {})

\* a rejection that sets the status and leaves the flag unset
applyAutoRejectionNoFlag(surveyResponse) ==
  [surveyResponse EXCEPT !.status = "Rejected"]

\* applyAutoRejection, lines 1543-1563
applyAutoRejection(surveyResponse) ==
  [surveyResponse EXCEPT !.status = "Rejected", !.autoRejected = TRUE]

\* ---- completeCatiInterview ---------------------------------------------
\* setNumber 0 stands for a payload without setNumber
Payloads == {[time |-> 90, setNumber |-> 2], [time |-> 90, setNumber |-> 0],
             [time |-> 300, setNumber |-> 1]}

\* a check that does not look for the session
completeRefusalNoSession(q, i, sid) ==
  IF q \notin DOMAIN queue THEN "not_found"
  ELSE IF queue[q].assignedTo = NoOwner THEN "error"
  ELSE IF queue[q].assignedTo # i THEN "forbidden"
  ELSE "none"

\* lines 639-685: the answers before anything is written; reading
\* assignedTo.toString() of an unowned entry (671) throws into the catch of
\* 1292-1310
completeRefusal(q, i, sid) ==
  IF q \notin DOMAIN queue THEN "not_found"
  ELSE IF queue[q].assignedTo = NoOwner THEN "error"
  ELSE IF queue[q].assignedTo # i THEN "forbidden"
  ELSE IF sid \notin DOMAIN sessions THEN "not_found"
  ELSE "none"

\* lines 602-685
CompleteLoad(r, i, q, sid, payload, limit, budget) ==
  /\ Slot(r)
  /\ Cardinality(InFlight) < limit
  /\ now < budget * Tick
  /\ LET base == [Idle EXCEPT !.op = "complete", !.by = i, !.qid = q, !.sid = sid]
         refused == completeRefusal(q, i, sid)
     IN IF refused # "none"
        THEN req' = [req EXCEPT ![r] = Refuse("complete", refused)] /\ now' = now
        ELSE /\ now' = now + Tick
             /\ req' = [req EXCEPT ![r] =
                  [base EXCEPT !.pc = "complete_find", !.doc = queue[q],
                               !.payload = payload]]
  /\ UNCHANGED <<contacts, phoneOnFile, queue, sessions, responses, setData, qcBatch, gen, behind, initRuns, lastCompletes>>

\* a lookup that misses the response of the same session and entry
ExistingResponsesNone(sid, q) ==
  {x \in DOMAIN responses : responses[x].sessionId = sid /\ responses[x].queueId # q}

\* lines 768-775: findOne({$or: [{sessionId}, {'metadata.respondentQueueId'}]})
ExistingResponses(sid, q) ==
  {x \in DOMAIN responses : responses[x].sessionId = sid \/ responses[x].queueId = q}

CompleteFind(r) ==
  /\ req[r].pc = "complete_find"
  /\ LET found == ExistingResponses(req[r].sid, req[r].qid)
     IN IF found = {}
        THEN req' = [req EXCEPT ![r].pc = "complete_create"]
        ELSE \E x \in found :
               req' = [req EXCEPT ![r].pc = "complete_update", ![r].rid = x,
                                  ![r].rdoc = responses[x]]
  /\ UNCHANGED <<contacts, phoneOnFile, queue, sessions, responses, setData, qcBatch, now, gen, behind, initRuns, lastCompletes>>

\* qcBatchHelper.addResponseToBatch
addResponseToBatch(coll, x) == [coll EXCEPT ![x].qcBatch = TRUE]

\* the step of a complete call that a store or collaborator failure hits:
\* the forced setNumber update, the auto-rejection evaluation, the hand-off
\* to the quality-review batch, the SetData upsert; or none
Faults == {"none", "setNumber", "evaluation", "handOff", "setData"}

\* lines 777-896: update the existing response, first auto-rejection check
\* and first hand-off to the quality-review batch.  The forced setNumber
\* update of 829-832 is outside every try block: when it throws, the handler
\* leaves through the catch of 1292-1310 with the response saved (822) and
\* the queue entry untouched.  The evaluation and the hand-off are in try
\* blocks of their own (862-882, 889-894)
CompleteUpdate(r, fault) ==
  /\ req[r].pc = "complete_update"
  /\ LET x == req[r].rid
         updated == [req[r].rdoc EXCEPT !.totalTimeSpent = req[r].payload.time,
                                        !.setNumber = req[r].payload.setNumber,
                                        !.queueId = req[r].qid]
         saved == [responses EXCEPT ![x].totalTimeSpent = updated.totalTimeSpent,
                                    ![x].setNumber = updated.setNumber,
                                    ![x].queueId = updated.queueId]
         rejected == /\ fault # "evaluation"
                     /\ checkAutoRejection(updated, updated.responses, updated.survey) # {}
         local == IF rejected THEN applyAutoRejection(updated) ELSE updated
         stored == IF rejected
                   THEN [saved EXCEPT ![x].status = "Rejected", ![x].autoRejected = TRUE]
                   ELSE saved
         handOff == ~local.qcBatch /\ ~local.autoRejected /\ fault # "handOff"
     IN IF fault = "setNumber"
        THEN /\ responses' = saved
             /\ qcBatch' = qcBatch
             /\ req' = [req EXCEPT ![r] = Finish(r, "error")]
        ELSE /\ responses' = IF handOff THEN addResponseToBatch(stored, x) ELSE stored
             /\ qcBatch' = IF handOff THEN Append(qcBatch, x) ELSE qcBatch
             /\ req' = [req EXCEPT ![r].pc = "complete_review", ![r].rdoc = local,
                                   ![r].rejected = rejected,
                                   ![r].handOffs = IF handOff THEN 1 ELSE 0]
  /\ Completing(r, FALSE)
  /\ UNCHANGED <<contacts, phoneOnFile, queue, sessions, setData, now, gen, behind, initRuns>>

\* lines 897-999: create the response
CompleteCreate(r) ==
  /\ req[r].pc = "complete_create"
  /\ LET surveyResponse ==
           [id |-> Len(responses) + 1, responses |-> <<>>,
            sessionId |-> req[r].sid, queueId |-> req[r].qid,
            survey |-> req[r].doc.survey, interviewer |-> req[r].by,
            totalTimeSpent |-> req[r].payload.time,
            setNumber |-> req[r].payload.setNumber,
            status |-> "Pending_Approval", autoRejected |-> FALSE, qcBatch |-> FALSE]
     IN /\ responses' = Append(responses, surveyResponse)
        /\ req' = [req EXCEPT ![r].pc = "complete_review",
                              ![r].rid = Len(responses) + 1,
                              ![r].rdoc = surveyResponse]
  /\ Completing(r, TRUE)
  /\ UNCHANGED <<contacts, phoneOnFile, queue, sessions, setData, qcBatch, now, gen, behind, initRuns>>

\* a restore that writes null
setNumberLost(finalSetNumber, surveyResponse) == 0

\* lines 1006-1010 and 1018-1021: the setNumber re-applied after a rejection
setNumberToPreserve(finalSetNumber, surveyResponse) ==
  IF finalSetNumber # 0 THEN finalSetNumber ELSE surveyResponse.setNumber

\* lines 1001-1065: auto-rejection check and hand-off to the quality-review
\* batch, run for created and updated responses alike, each in a try block
\* of its own (1003-1047, 1050-1065)
CompleteReview(r, fault) ==
  /\ req[r].pc = "complete_review"
  /\ LET x == req[r].rid
         rdoc == req[r].rdoc
         rejected == /\ fault # "evaluation"
                     /\ checkAutoRejection(rdoc, rdoc.responses, rdoc.survey) # {}
         setNumberToRestore == setNumberToPreserve(req[r].payload.setNumber, rdoc)
         local == IF rejected
                  THEN [applyAutoRejection(rdoc) EXCEPT !.setNumber = setNumberToRestore]
                  ELSE rdoc
         stored == IF rejected
                   THEN [responses EXCEPT ![x].status = "Rejected",
                                          ![x].autoRejected = TRUE,
                                          ![x].setNumber = setNumberToRestore]
                   ELSE responses
         handOff == ~local.autoRejected /\ fault # "handOff"
     IN /\ responses' = IF handOff THEN addResponseToBatch(stored, x) ELSE stored
        /\ qcBatch' = IF handOff THEN Append(qcBatch, x) ELSE qcBatch
        /\ req' = [req EXCEPT ![r].pc = "complete_finish", ![r].rdoc = local,
                              ![r].rejected = rejected,
                              ![r].handOffs = IF handOff THEN @ + 1 ELSE @]
  /\ UNCHANGED <<contacts, phoneOnFile, queue, sessions, setData, now, gen, behind, initRuns, lastCompletes>>

\* an upsert that always creates
SaveSetDataNew(x, n) == Append(setData, [surveyResponse |-> x, setNumber |-> n])

\* lines 1104-1129: SetData.findOne({surveyResponse}) then update or create
SaveSetData(x, n) ==
  IF \E k \in DOMAIN setData : setData[k].surveyResponse = x
  THEN [k \in DOMAIN setData |->
          IF setData[k].surveyResponse = x
          THEN [setData[k] EXCEPT !.setNumber = n] ELSE setData[k]]
  ELSE Append(setData, [surveyResponse |-> x, setNumber |-> n])

\* an answer that shows the stored approval status
storedStatus(surveyResponse) == surveyResponse.status

\* lines 1281-1290: data.status of the 200 answer
shownStatus(surveyResponse) == "Pending_Approval"

\* an entry marked without the link to its response
interviewSuccessUnlinked(doc, x) ==
  [doc EXCEPT !.status = "interview_success", !.completedAt = now]

\* lines 1067-1070
interviewSuccess(doc, x) ==
  [doc EXCEPT !.status = "interview_success", !.response = x, !.completedAt = now]

\* lines 1067-1290: mark the queue entry, SetData, the final setNumber
\* update, and the answer to the interviewer; the SetData upsert and the
\* final update are in try blocks of their own (1105-1145, 1192-1278)
CompleteFinish(r, fault) ==
  /\ req[r].pc = "complete_finish"
  /\ LET e == req[r].qid
         x == req[r].rid
         doc == req[r].doc
         n == req[r].payload.setNumber
         setNumberToSave == IF n # 0 THEN n ELSE req[r].rdoc.setNumber
         local == interviewSuccess(doc, x)
     IN /\ queue' = [queue EXCEPT ![e] = SaveDoc(queue[e], doc, local)]
        /\ setData' = IF n # 0 /\ fault # "setData" THEN SaveSetData(x, n) ELSE setData
        /\ responses' = IF setNumberToSave # 0 /\ fault # "setNumber"
                        THEN [responses EXCEPT ![x].setNumber = setNumberToSave]
                        ELSE responses
  /\ History(0)
  /\ req' = [req EXCEPT ![r] =
       [Finish(r, "ok") EXCEPT !.shown = shownStatus(responses'[req[r].rid])]]
  /\ UNCHANGED <<contacts, phoneOnFile, sessions, qcBatch, now, initRuns, lastCompletes>>

\* ---- next-state relation -----------------------------------------------
AbandonInputs == {<<"call_later", 1>>, <<"call_later", 0>>, <<"busy", 0>>, <<"none", 0>>}

\* ids a caller may name: every existing document and one that does not exist
QueueIds == 1..(Len(queue) + 1)
SessionIds == 1..(Len(sessions) + 1)

\* a caller begins a request; at most limit requests are in flight and the
\* run accepts requests until the clock reaches budget
BeginStart(r, callers, limit, budget) ==
  \E i \in callers, s \in Surveys : StartRead(r, i, s, limit, budget)

BeginQueue(r, limit, budget) ==
  \/ BeginStart(r, Interviewers, limit, budget)
  \/ \E i \in Interviewers, q \in QueueIds : CallLoad(r, i, q, limit, budget)
  \/ \E i \in Interviewers, q \in QueueIds, a \in AbandonInputs :
        AbandonLoad(r, i, q, a[1], a[2], limit, budget)

BeginComplete(r, callers, limit, budget) ==
  \E i \in callers, q \in QueueIds, sid \in SessionIds, p \in Payloads :
        CompleteLoad(r, i, q, sid, p, limit, budget)

\* an in-flight request takes its next step
StepStart(r) ==
  \/ initializeRespondentQueue(r)
  \/ ClaimFind(r)
  \/ ClaimSave(r)

StepQueue(r) ==
  \/ StepStart(r)
  \/ \E apiResponse \in ApiResponses : CallResult(r, apiResponse)
  \/ AbandonSave(r)

StepCompleteFaulty(r, faults) ==
  \/ CompleteFind(r)
  \/ \E fault \in faults : CompleteUpdate(r, fault)
  \/ CompleteCreate(r)
  \/ \E fault \in faults : CompleteReview(r, fault)
  \/ \E fault \in faults : CompleteFinish(r, fault)

\* every store and collaborator answers
StepComplete(r) == StepCompleteFaulty(r, {"none"})

Upload == \E s \in Surveys : \E file \in Files(s) : UploadContacts(s, file)

\* the queue operations of concurrent callers, on the contact lists as
\* they are
Next ==
  \/ \E r \in Reqs : BeginQueue(r, Cardinality(Reqs), MaxTime)
  \/ \E r \in Reqs : StepQueue(r)

Spec == Init /\ [][Next]_vars

\* one request at a time: each handler runs to its response before the next begins
NextSeq ==
  \/ Upload
  \/ \E r \in Reqs : BeginQueue(r, 1, MaxTime)
  \/ \E r \in Reqs : BeginComplete(r, Interviewers, 1, MaxTime)
  \/ \E r \in Reqs : StepQueue(r)
  \/ \E r \in Reqs : StepComplete(r)

SpecSeq == Init /\ [][NextSeq]_vars

\* one interviewer's start and complete requests, one at a time
Solo == {1}

NextComplete ==
  \/ \E r \in Reqs : BeginStart(r, Solo, 1, MaxCompleteTime)
  \/ \E r \in Reqs : BeginComplete(r, Solo, 1, MaxCompleteTime)
  \/ \E r \in Reqs : StepStart(r)
  \/ \E r \in Reqs : StepComplete(r)

SpecComplete == Init /\ [][NextComplete]_vars

\* completions of concurrent callers (a retry overlapping the first attempt);
\* the queue operations run one at a time
NextRetry ==
  \/ \E r \in Reqs : BeginQueue(r, 1, MaxTime)
  \/ \E r \in Reqs : BeginComplete(r, Interviewers, Cardinality(Reqs), MaxTime)
  \/ \E r \in Reqs : StepQueue(r)
  \/ \E r \in Reqs : StepComplete(r)

SpecRetry == Init /\ [][NextRetry]_vars

\* one interviewer's claims and completions, one request at a time, with
\* failures of the stores and collaborators behind the completion
NextFaulty ==
  \/ \E r \in Reqs : BeginStart(r, Solo, 1, MaxTime)
  \/ \E r \in Reqs : BeginComplete(r, Solo, 1, MaxTime)
  \/ \E r \in Reqs : StepStart(r)
  \/ \E r \in Reqs : StepCompleteFaulty(r, Faults)

SpecFaulty == Init /\ [][NextFaulty]_vars

\* the reasons of the statusMap table, one the table does not know, and no
\* reason at all
Reasons == TerminalReasons \cup {"call_later", "technical_issue", "other", "unrecognized", "none"}

\* req.body of abandon: a reason, and for call_later a callLaterDate or none
AbandonTable == {<<reason, 0>> : reason \in Reasons} \cup {<<"call_later", 1>>}

BeginAbandon(r, limit, budget) ==
  \E i \in Interviewers, q \in QueueIds, a \in AbandonTable :
     AbandonLoad(r, i, q, a[1], a[2], limit, budget)

\* claims, calls and abandons with every reason, one request at a time
NextAbandon ==
  \/ \E r \in Reqs : BeginStart(r, Interviewers, 1, MaxTime)
  \/ \E r \in Reqs, i \in Interviewers, q \in QueueIds : CallLoad(r, i, q, 1, MaxTime)
  \/ \E r \in Reqs : BeginAbandon(r, 1, MaxTime)
  \/ \E r \in Reqs : StepQueue(r)

SpecAbandon == Init /\ [][NextAbandon]_vars

\* interviewers with and without a phone number in their profile (User.phone,
\* read at line 242)
InitPhone ==
  /\ contacts \in {c \in [Surveys -> UNION {ContactLists(s) : s \in Surveys}] :
                      \A s \in Surveys : c[s] \in ContactLists(s)}
  /\ phoneOnFile \in [Interviewers -> BOOLEAN]
  /\ queue = <<>>
  /\ sessions = <<>>
  /\ responses = <<>>
  /\ setData = <<>>
  /\ qcBatch = <<>>
  /\ now = 0
  /\ req = [r \in Reqs |-> Idle]
  /\ gen = <<>>
  /\ behind = {}
  /\ initRuns = [s \in Surveys |-> <<>>]
  /\ lastCompletes = <<>>

\* start, make-call and abandon requests, one at a time
NextPhone ==
  \/ \E r \in Reqs : BeginQueue(r, 1, MaxTime)
  \/ \E r \in Reqs : StepQueue(r)

SpecPhone == InitPhone /\ [][NextPhone]_vars

\* ---- checkAutoRejection over stored responses --------------------------
Durations == {0, 90, 179, 180, 300}

string(chars) == [type |-> "string", chars |-> chars]
number(n) == [type |-> "number", n |-> n]

PhoneValues ==
  {string(<<>>), string(<<"9", "8">>), string(<<"9", " ", "8">>),
   string(<<"(", "9", ")", "-", "8">>), string(<<"9", ".", "8">>),
   string(<<"-">>), string(<<"a", "9">>), string(<<"A", "9">>),
   number(98), number(0)}

answer(questionText, response) == [questionText |-> questionText, response |-> response]

\* the responses array of a stored response
AnswerSheets ==
  {<<>>, <<answer("your age", number(98))>>,
   <<answer("your mobile number", string(<<"7">>)),
     answer("alternate phone number", string(<<"9", "8">>))>>}
  \cup {<<answer("your mobile number", v)>> : v \in PhoneValues}

StoredResponse(x, s, t, a, st) ==
  [id |-> x, responses |-> a, sessionId |-> 0, queueId |-> 0, survey |-> s,
   interviewer |-> 1, totalTimeSpent |-> t, setNumber |-> 0, status |-> st,
   autoRejected |-> FALSE, qcBatch |-> FALSE]

\* two stored responses; the second one is long enough and has been reviewed
\* or not
InitEvaluate ==
  /\ \E s1, s2 \in Surveys, t \in Durations, a1, a2 \in AnswerSheets,
        st \in {"Pending_Approval", "Approved", "Rejected"} :
       responses = <<StoredResponse(1, s1, t, a1, "Pending_Approval"),
                     StoredResponse(2, s2, 300, a2, st)>>
  /\ contacts = [s \in Surveys |-> <<>>]
  /\ phoneOnFile = [i \in Interviewers |-> TRUE]
  /\ queue = <<>>
  /\ sessions = <<>>
  /\ setData = <<>>
  /\ qcBatch = <<>>
  /\ now = 0
  /\ req = [r \in Reqs |-> Idle]
  /\ gen = <<>>
  /\ behind = {}
  /\ initRuns = [s \in Surveys |-> <<>>]
  /\ lastCompletes = <<>>

\* lines 1013-1016: checkAutoRejection on a stored response, then
\* applyAutoRejection when it returns a verdict
Evaluate(r, x) ==
  /\ Slot(r)
  /\ LET surveyResponse == responses[x]
         rejectionInfo == checkAutoRejection(surveyResponse, surveyResponse.responses,
                                             surveyResponse.survey)
     IN /\ responses' = IF rejectionInfo # {}
                        THEN [responses EXCEPT ![x] = applyAutoRejection(surveyResponse)]
                        ELSE responses
        /\ req' = [req EXCEPT ![r] =
              [Idle EXCEPT !.op = "evaluate", !.pc = "done", !.rid = x,
                           !.rdoc = surveyResponse, !.rejectionInfo = rejectionInfo,
                           !.res = "ok"]]
  /\ UNCHANGED <<contacts, phoneOnFile, queue, sessions, setData, qcBatch, now, gen, behind, initRuns, lastCompletes>>

NextEvaluate == \E r \in Reqs, x \in DOMAIN responses : Evaluate(r, x)

SpecEvaluate == InitEvaluate /\ [][NextEvaluate]_vars

\* ---- claiming and resolving, for ever -------------------------------------
\* Whole requests, one at a time, as single steps; the clock and the history
\* bookkeeping stand still, so that a run can go on for ever. Nothing here
\* resets createdAt, so the order of the entries does not depend on the clock.

\* how an interviewer resolves an entry they hold: asks to call back later, or
\* reports the respondent busy
Resolutions == {<<"call_later", 1>>, <<"busy", 0>>}

\* lines 1316-1384, reached from line 211: nothing is pending for the survey
Initialize(s) ==
  /\ contacts[s] # <<>>
  /\ PendingOf(s) = {}
  /\ LET existingPhones == {queue[e].phone : e \in EntriesOf(s)}
         newContacts == FilterSeq(contacts[s], existingPhones)
     IN IF newContacts = <<>>
        THEN queue' = ResetQueue(s)
        ELSE \E spread \in {0, 1} : queue' = InsertMany(s, newContacts, spread)
  /\ queue' # queue
  /\ gen' = [e \in DOMAIN queue' |-> 1]
  /\ UNCHANGED <<contacts, phoneOnFile, sessions, responses, setData, qcBatch, now, req, behind, initRuns, lastCompletes>>

\* lines 215-239: the next pending entry of the survey is assigned to i
Claim(i, s) ==
  /\ contacts[s] # <<>>
  /\ \E e \in NextRespondent(s) :
       queue' = [queue EXCEPT ![e].status = "assigned", ![e].assignedTo = i]
  /\ UNCHANGED <<contacts, phoneOnFile, sessions, responses, setData, qcBatch, now, req, gen, behind, initRuns, lastCompletes>>

\* lines 505-590: i abandons an entry they hold
Resolve(i, e, reason, date) ==
  /\ abandonRefusal(e, i) = "none"
  /\ queue[e].status = "assigned" /\ queue[e].assignedTo = i
  /\ queue' = [queue EXCEPT ![e] = Abandoned(queue[e], reason, date)]
  /\ UNCHANGED <<contacts, phoneOnFile, sessions, responses, setData, qcBatch, now, req, gen, behind, initRuns, lastCompletes>>

NextForever ==
  \/ \E s \in Surveys : Initialize(s)
  \/ \E i \in Interviewers, s \in Surveys : Claim(i, s)
  \/ \E i \in Interviewers, e \in DOMAIN queue, a \in Resolutions :
        Resolve(i, e, a[1], a[2])

\* interviewers keep asking for the next respondent of every survey and keep
\* resolving what they hold
SpecForever ==
  /\ Init
  /\ [][NextForever]_vars
  /\ \A s \in Surveys : WF_vars(Initialize(s))
  /\ \A s \in Surveys : WF_vars(\E i \in Interviewers : Claim(i, s))
  /\ WF_vars(\E i \in Interviewers, e \in DOMAIN queue, a \in Resolutions :
               Resolve(i, e, a[1], a[2]))

\* ---- initiateDeepCall over the provider's response bodies ------------------
undefined == [type |-> "undefined"]

\* response.data of the provider: status, code and statusCode are undefined,
\* a string or a number; callId and id are 0 when absent; message is "" when
\* absent
Bodies ==
  [status : {undefined, string(<<"s", "u", "c", "c", "e", "s", "s">>),
             string(<<"e", "r", "r", "o", "r">>), string(<<"E", "R", "R", "O", "R">>),
             string(<<"f", "a", "i", "l", "e", "d">>),
             string(<<"f", "a", "i", "l", "u", "r", "e">>)},
   code : {undefined, number(0), string(<<"0">>), number(200),
           string(<<"2", "0", "0">>), number(500)},
   statusCode : {undefined, number(200), number(500)},
   callId : {0, 7},
   id : {0, 8},
   message : {"", "apiResponse.message"}]

\* lines 51-54: the status, lower-cased when it is a string
statusOf(apiResponse) ==
  IF apiResponse.status.type = "string"
  THEN string(toLowerCase(apiResponse.status.chars))
  ELSE apiResponse.status

\* line 54: apiResponse.code ?? apiResponse.statusCode
codeOf(apiResponse) ==
  IF apiResponse.code # undefined THEN apiResponse.code ELSE apiResponse.statusCode

\* line 57
isExplicitErrorStatus(apiResponse) ==
  statusOf(apiResponse) \in {string(<<"e", "r", "r", "o", "r">>),
                             string(<<"f", "a", "i", "l", "e", "d">>),
                             string(<<"f", "a", "i", "l", "u", "r", "e">>)}

\* line 58: ['0', 0, '200', 200].includes(code)
isErrorCode(apiResponse) ==
  /\ codeOf(apiResponse) # undefined
  /\ codeOf(apiResponse) \notin {string(<<"0">>), number(0),
                                  string(<<"2", "0", "0">>), number(200)}

\* lines 47-101: the result initiateDeepCall returns for a response body
deepCallResult(apiResponse) ==
  LET callId == IF apiResponse.callId # 0 THEN apiResponse.callId ELSE apiResponse.id
  IN IF isExplicitErrorStatus(apiResponse) \/ isErrorCode(apiResponse)
     THEN [success |-> FALSE, callId |-> 0,
           message |-> IF apiResponse.message # "" THEN apiResponse.message
                       ELSE "DeepCall API Error"]
     ELSE IF callId = 0
     THEN [success |-> FALSE, callId |-> 0,
           message |-> "API response does not contain call ID"]
     ELSE [success |-> TRUE, callId |-> callId, message |-> ""]

\* the provider answers a request with a body
Classify(r, apiResponse) ==
  /\ Slot(r)
  /\ req' = [req EXCEPT ![r] =
        [Idle EXCEPT !.op = "initiateDeepCall", !.pc = "done",
                     !.payload = apiResponse, !.rdoc = deepCallResult(apiResponse),
                     !.res = "ok"]]
  /\ UNCHANGED <<contacts, phoneOnFile, queue, sessions, responses, setData, qcBatch, now, gen, behind, initRuns, lastCompletes>>

NextClassify == \E r \in Solo, apiResponse \in Bodies : Classify(r, apiResponse)

SpecClassify == Init /\ [][NextClassify]_vars

\* ---- properties --------------------------------------------------------
Handed(r) == req[r].op = "start" /\ req[r].pc = "done" /\ req[r].res = "handed"

\* C1: of the start requests that race for an entry while it is pending,
\* only one is handed it: no two requests that found the entry in the same
\* pending period are both answered with it.
C1_ExclusiveClaim ==
  \A r1, r2 \in Reqs :
     (r1 # r2 /\ Handed(r1) /\ Handed(r2) /\ req[r1].qid = req[r2].qid)
       => req[r1].seenGen # req[r2].seenGen

\* C4: the write that assigns an entry to an interviewer takes effect only
\* if the entry is still pending when the write is applied.
C4_ClaimWriteGuarded ==
  [][\A r \in Reqs :
       (req[r].pc = "assign" /\ req'[r].pc = "done")
         => \/ queue[req[r].qid].status = "pending"
            \/ queue'[req[r].qid] = queue[req[r].qid]]_vars

\* C5: in every reachable state a pending entry has no owner and an
\* assigned or calling entry has one.
C5_OwnerConsistent ==
  \A e \in DOMAIN queue :
     /\ queue[e].status = "pending" => queue[e].assignedTo = NoOwner
     /\ queue[e].status \in {"assigned", "calling"} => queue[e].assignedTo # NoOwner

TerminalStatuses == TerminalReasons \cup {"interview_success"}

\* C6: an entry in a terminal status (interview_success, not_interested,
\* busy, no_answer, switched_off, not_reachable, does_not_exist, rejected)
\* keeps that status: no step of claim, failed call, abandon or queue
\* initialization changes it.
C6_TerminalAbsorbing ==
  [][\A e \in DOMAIN queue :
       queue[e].status \in TerminalStatuses => queue'[e].status = queue[e].status]_vars

\* C7: the entry a claim selects is a pending entry of the requested survey,
\* no pending entry of that survey has a higher priority, and none of the
\* same priority is older; the entry handed out is assigned to the caller.
C7_ClaimOrder ==
  \A r \in Reqs :
     /\ (req[r].op = "start" /\ req[r].pc = "assign") =>
          LET e == req[r].qid
          IN /\ queue[e].survey = req[r].survey
             /\ queue[e].status = "pending"
             /\ \A o \in DOMAIN queue :
                  (queue[o].survey = req[r].survey /\ queue[o].status = "pending")
                    => \/ queue[o].priority < queue[e].priority
                       \/ /\ queue[o].priority = queue[e].priority
                          /\ queue[o].createdAt >= queue[e].createdAt
     /\ Handed(r) =>
          /\ queue[req[r].qid].survey = req[r].survey
          /\ queue[req[r].qid].status = "assigned"
          /\ queue[req[r].qid].assignedTo = req[r].by

\* C7 witness: a claim has selected the older of two pending entries of
\* equal priority while an entry of another survey is pending too.
C7_Witness ==
  \E r \in Reqs :
     /\ req[r].op = "start" /\ req[r].pc = "assign"
     /\ \E o \in DOMAIN queue :
          /\ o # req[r].qid
          /\ queue[o].survey = req[r].survey /\ queue[o].status = "pending"
          /\ queue[o].priority = queue[req[r].qid].priority
          /\ queue[o].createdAt > queue[req[r].qid].createdAt
     /\ \E x \in DOMAIN queue :
          queue[x].survey # req[r].survey /\ queue[x].status = "pending"

Selected(r) == req[r].op = "start" /\ req[r].pc = "assign"

\* C8 as stated: once a's call has failed while b, of the same survey and
\* priority 0 and newer than a, was pending, no claim selects a for as long
\* as b stays pending.
C8_TailRequeue ==
  \A p \in behind :
     /\ p[1] \notin NextRespondent(queue[p[1]].survey)
     /\ \A r \in Reqs : Selected(r) => req[r].qid # p[1]

\* C8 amended: the same, unless a has since been abandoned with call_later
\* and a callback date, which raises its priority to 10.
C8_TailRequeueUnlessBoosted ==
  \A p \in behind :
     queue[p[1]].priority # CallLaterPriority =>
       /\ p[1] \notin NextRespondent(queue[p[1]].survey)
       /\ \A r \in Reqs : Selected(r) => req[r].qid # p[1]

\* C8 witness: after a's failed call the next claim has selected b, while a
\* is pending at the tail.
C8_Witness ==
  \E p \in behind : \E r \in Reqs :
     /\ Selected(r) /\ req[r].qid = p[2]
     /\ queue[p[1]].status = "pending"
     /\ queue[p[1]].priority = LowestPriority

CallLaterDone(r) ==
  /\ req[r].op = "abandon" /\ req[r].pc = "done" /\ req[r].res = "ok"
  /\ req[r].reason = "call_later" /\ req[r].date # 0

\* C9: right after an abandon with call_later and a callback date the entry
\* is pending without owner, it sorts before every pending priority-0 entry
\* of its survey whatever their createdAt, and a claim selects no such entry.
C9_CallLaterBoost ==
  \A r \in Reqs : CallLaterDone(r) =>
     LET e == req[r].qid
         ordinary == {o \in PendingOf(queue[e].survey) :
                        queue[o].priority = DefaultPriority}
     IN /\ queue[e].status = "pending"
        /\ queue[e].assignedTo = NoOwner
        /\ \A o \in ordinary : SortsBefore(e, o)
        /\ NextRespondent(queue[e].survey) \cap ordinary = {}
        /\ NextRespondent(queue[e].survey) # {}

\* C9 witness: the entry abandoned with call_later is newer than a pending
\* priority-0 entry of its survey.
C9_Witness ==
  \E r \in Reqs :
     /\ CallLaterDone(r)
     /\ \E o \in PendingOf(queue[req[r].qid].survey) :
          /\ queue[o].priority = DefaultPriority
          /\ queue[o].createdAt < queue[req[r].qid].createdAt

Initializing(s) ==
  \E r \in Reqs : req[r].op = "start" /\ req[r].survey = s /\ req[r].pc = "init_write"

\* C10: once the initializer has run twice on a survey, every phone of
\* either contact list has exactly one entry in that survey's queue.
C10_NoDuplicateImport ==
  \A s \in Surveys :
     (Len(initRuns[s]) = 2 /\ ~Initializing(s)) =>
        \A p \in Range(initRuns[s][1]) \cup Range(initRuns[s][2]) :
           Cardinality({e \in EntriesOf(s) : queue[e].phone = p}) = 1

CompleteDone(r) == req[r].op = "complete" /\ req[r].pc = "done" /\ req[r].res = "ok"

WithSession(sid) == {x \in DOMAIN responses : responses[x].sessionId = sid}

Retried == Len(lastCompletes) = 2 /\ lastCompletes[1].sid = lastCompletes[2].sid

\* C2 as stated: when complete is invoked twice in sequence with the same
\* session id, the second call creates no response and exactly one response
\* carries that session id.
C2_RetrySameSession ==
  Retried =>
    /\ ~lastCompletes[2].created
    /\ Cardinality(WithSession(lastCompletes[2].sid)) = 1

\* C2 amended: when complete is invoked twice in succession for the same
\* queue entry with the same session id, the second call creates no
\* response, at most one response carries that session id, and the answered
\* call leaves its payload on the one response it wrote, which is linked to
\* the queue entry.
C2_RetrySameEntry ==
  /\ (Retried /\ lastCompletes[1].qid = lastCompletes[2].qid) =>
        /\ ~lastCompletes[2].created
        /\ Cardinality(WithSession(lastCompletes[2].sid)) <= 1
        /\ ExistingResponses(lastCompletes[2].sid, lastCompletes[2].qid) # {}
  /\ \A r \in Reqs : CompleteDone(r) =>
        /\ responses[req[r].rid].totalTimeSpent = req[r].payload.time
        /\ responses[req[r].rid].queueId = req[r].qid

\* C2 witness: the retry has been answered; the first call created the
\* response and the second, with a different payload, updated it.
C2_Witness ==
  /\ Retried /\ lastCompletes[1].qid = lastCompletes[2].qid
  /\ lastCompletes[1].created
  /\ \E r \in Reqs :
       /\ CompleteDone(r) /\ req[r].sid = lastCompletes[2].sid
       /\ req[r].payload.time = 300
       /\ responses[req[r].rid].autoRejected

\* C3: no two responses carry the same session id and no two are linked to
\* the same queue entry, also when complete requests overlap.
C3_OneResponse ==
  \A x, y \in DOMAIN responses :
     x # y => /\ responses[x].sessionId # responses[y].sessionId
              /\ responses[x].queueId # responses[y].queueId

\* C11: in every reachable state no two queue entries of one survey carry
\* the same phone number.
C11_PhoneUnique ==
  \A a, b \in DOMAIN queue :
     (a # b /\ queue[a].survey = queue[b].survey) => queue[a].phone # queue[b].phone

\* C12: a complete request for an absent queue entry is answered NotFound,
\* and one from a caller who is not the entry's owner is answered Forbidden,
\* also when the entry has no owner.
C12_CompleteRefusals ==
  [][\A r \in Reqs, i \in Interviewers, q \in QueueIds, sid \in SessionIds, p \in Payloads :
       CompleteLoad(r, i, q, sid, p, 1, MaxTime) =>
         /\ q \notin DOMAIN queue => req'[r].res = "not_found"
         /\ (q \in DOMAIN queue /\ queue[q].assignedTo # i) => req'[r].res = "forbidden"]_vars

\* C13: every successful complete answers with the status Pending_Approval,
\* whether the response was auto-rejected or not.
C13_AlwaysPendingApproval ==
  \A r \in Reqs : CompleteDone(r) => req[r].shown = "Pending_Approval"

\* C13 witness: a complete has been answered whose response is stored as
\* auto-rejected.
C13_Witness ==
  \E r \in Reqs :
     /\ CompleteDone(r)
     /\ responses[req[r].rid].status = "Rejected"
     /\ responses[req[r].rid].autoRejected

SetRecordsOf(x) == {k \in DOMAIN setData : setData[k].surveyResponse = x}

\* C15: after a successful complete whose payload carries the question-set
\* identifier s, the response has setNumber s and it has one set record,
\* with setNumber s.
C15_SetNumberPersisted ==
  \A r \in Reqs : (CompleteDone(r) /\ req[r].payload.setNumber # 0) =>
     /\ responses[req[r].rid].setNumber = req[r].payload.setNumber
     /\ Cardinality(SetRecordsOf(req[r].rid)) = 1
     /\ \A k \in SetRecordsOf(req[r].rid) : setData[k].setNumber = req[r].payload.setNumber

\* C15 witness: a retry carrying set 1 has been answered for a response
\* first completed, and auto-rejected, with set 2.
C15_Witness ==
  \E r \in Reqs :
     /\ CompleteDone(r) /\ req[r].payload.setNumber = 1
     /\ responses[req[r].rid].autoRejected
     /\ SetRecordsOf(req[r].rid) # {}

\* C16: whenever a response has a set record, the record's setNumber
\* equals the response's setNumber, once the complete call is answered.
C16_SetRecordAgrees ==
  \A r \in Reqs : CompleteDone(r) =>
     \A k \in SetRecordsOf(req[r].rid) :
        setData[k].setNumber = responses[req[r].rid].setNumber

Evaluated(r) ==
  /\ req[r].op = "complete"
  /\ req[r].pc \in {"complete_review", "complete_finish", "done"}
  /\ req[r].rejected

\* C17: once a complete call has applied an auto-rejection, and until and
\* after it is answered, the response carries the setNumber the call wrote
\* before the evaluation.
C17_RejectionKeepsSetNumber ==
  \A r \in Reqs : Evaluated(r) =>
     responses[req[r].rid].setNumber = req[r].payload.setNumber

\* C17 witness: an auto-rejection has been applied to a response written
\* with set 2 and the call is not yet answered.
C17_Witness ==
  \E r \in Reqs :
     /\ Evaluated(r) /\ req[r].pc = "complete_finish"
     /\ req[r].payload.setNumber = 2
     /\ responses[req[r].rid].status = "Rejected"

EvaluateDone(r) == req[r].op = "evaluate" /\ req[r].pc = "done"

\* C18: the verdict of an evaluated response contains "Interview Too Short"
\* exactly when the response's total time spent is below 180 seconds,
\* the values 0, 179 and 180 included.
C18_TooShortIffBelowMinimum ==
  \A r \in Reqs : EvaluateDone(r) =>
     ("duration" \in req[r].rejectionInfo <=> req[r].rdoc.totalTimeSpent < MinDuration)

\* the spec's normal form of an answer: whitespace and punctuation stripped,
\* case folded
NormalForm(value) ==
  IF value.type = "string"
  THEN LET alnum == {k \in DOMAIN value.chars : value.chars[k] \notin {" ", "-", "(", ")", "."}}
           pick[k \in 0..Len(value.chars)] ==
             IF k = 0 THEN <<>>
             ELSE IF k \in alnum THEN Append(pick[k - 1], value.chars[k]) ELSE pick[k - 1]
       IN toLowerCase(pick[Len(value.chars)])
  ELSE toString(value.n)

\* the non-empty normal forms of a response's contact-number answers
ContactNumbers(doc) ==
  {NormalForm(doc.responses[k].response) :
     k \in {j \in DOMAIN doc.responses :
              /\ isPhoneQuestion(doc.responses[j].questionText)
              /\ Truthy(doc.responses[j].response)}}
  \ {<<>>}

\* C19: the verdict of an evaluated response contains "Duplicate Phone
\* Number" exactly when its survey is enrolled in the rule and its normalized
\* contact number equals that of another response of the same survey.
C19_DuplicateIffSameContact ==
  \A r \in Reqs : EvaluateDone(r) =>
     ("duplicate_phone" \in req[r].rejectionInfo <=>
        /\ req[r].rdoc.survey = TargetSurvey
        /\ \E o \in DOMAIN responses :
              /\ o # req[r].rid
              /\ responses[o].survey = req[r].rdoc.survey
              /\ ContactNumbers(responses[o]) \cap ContactNumbers(req[r].rdoc) # {})

\* C20: a start request that finds no pending entry for its survey, every
\* contact of the survey being queued already, is answered with the
\* "no pending respondents" result and is handed no entry.
C20_NoPendingNoEntry ==
  \A r \in Reqs :
     (req[r].op = "start" /\ req[r].pc = "done" /\ req[r].exhausted) =>
        req[r].res = "no_pending" /\ req[r].qid = 0

LastAttempt(doc) == doc.callAttempts[Len(doc.callAttempts)]

\* C21: when the provider does not accept the call (error status or code,
\* no call id, non-success HTTP result, timeout), the save leaves the entry
\* pending, unowned, at the lowest priority, with the attempt counter one
\* higher, createdAt set to now and one more attempt logged as failed with
\* the provider's message, and the caller is answered with that message as
\* a failure.
C21_FailedCallRequeued ==
  [][\A r \in Reqs, apiResponse \in ApiResponses \ {"accepted"} :
       CallResult(r, apiResponse) =>
         LET before == queue[req[r].qid]
             after == queue'[req[r].qid]
         IN /\ after.status = "pending"
            /\ after.assignedTo = NoOwner
            /\ after.priority = LowestPriority
            /\ after.currentAttemptNumber = before.currentAttemptNumber + 1
            /\ after.createdAt = now
            /\ Len(after.callAttempts) = Len(before.callAttempts) + 1
            /\ LastAttempt(after).status = "failed"
            /\ LastAttempt(after).reason = initiateDeepCall(apiResponse).message
            /\ LastAttempt(after).attemptNumber = after.currentAttemptNumber
            /\ req'[r].pc = "done" /\ req'[r].res = "call_failed"
            /\ req'[r].message = LastAttempt(after).reason]_vars

\* C21 witness: a call that timed out has been answered as failed and its
\* entry, called once before, is pending at the tail with two attempts.
C21_Witness ==
  \E r \in Reqs :
     /\ req[r].op = "call" /\ req[r].pc = "done" /\ req[r].res = "call_failed"
     /\ req[r].message = "error.message"
     /\ queue[req[r].qid].status = "pending"
     /\ queue[req[r].qid].currentAttemptNumber = 2
     /\ LastAttempt(queue[req[r].qid]).status = "failed"

\* C22: an abandon whose reason maps to call_failed (technical_issue, other,
\* an unrecognized reason, no reason) leaves the entry as a failed call
\* initiation does: pending, unowned, at the lowest priority, attempt
\* counter one higher and createdAt set to now.
C22_AbandonFailedLikeCallFailure ==
  [][\A r \in Reqs :
       (AbandonSave(r) /\ req'[r].res = "ok" /\ statusMap(req[r].reason) = "call_failed") =>
         LET before == queue[req[r].qid]
             after == queue'[req[r].qid]
         IN /\ after.status = "pending"
            /\ after.assignedTo = NoOwner
            /\ after.priority = LowestPriority
            /\ after.currentAttemptNumber = before.currentAttemptNumber + 1
            /\ after.createdAt = now]_vars

AbandonDone(r) == req[r].op = "abandon" /\ req[r].pc = "done" /\ req[r].res = "ok"

\* C23: an answered abandon whose reason maps to call_failed or call_later,
\* with or without a callback date, has left the entry pending and unowned:
\* neither label is the entry's status.
C23_LabelsNeverLive ==
  \A r \in Reqs :
     (AbandonDone(r) /\ statusMap(req[r].reason) \in {"call_failed", "call_later"}) =>
        /\ queue[req[r].qid].status = "pending"
        /\ queue[req[r].qid].assignedTo = NoOwner

\* C24: an abandon with reason call_later leaves the entry pending, unowned,
\* at the fixed high priority, with the callback time recorded, and with the
\* createdAt it had.
C24_CallLaterKeepsAge ==
  [][\A r \in Reqs :
       (AbandonSave(r) /\ req'[r].res = "ok" /\ req[r].reason = "call_later") =>
         LET before == queue[req[r].qid]
             after == queue'[req[r].qid]
         IN /\ after.status = "pending"
            /\ after.assignedTo = NoOwner
            /\ after.priority = CallLaterPriority
            /\ after.callLaterDate = req[r].date
            /\ after.createdAt = before.createdAt]_vars

\* C25: an abandon with one of the seven terminal reasons moves the entry to
\* the status of that name and does not requeue it (owner, priority, age and
\* attempt counter stay); an unrecognized or absent reason is handled as
\* call_failed: the last attempt is labelled call_failed and the entry is
\* released to pending.
C25_ReasonTable ==
  [][\A r \in Reqs :
       (AbandonSave(r) /\ req'[r].res = "ok") =>
         LET before == queue[req[r].qid]
             after == queue'[req[r].qid]
         IN /\ req[r].reason \in TerminalReasons =>
                 /\ after.status = req[r].reason
                 /\ after.assignedTo = before.assignedTo
                 /\ after.priority = before.priority
                 /\ after.createdAt = before.createdAt
                 /\ after.currentAttemptNumber = before.currentAttemptNumber
            /\ req[r].reason \in {"unrecognized", "none"} =>
                 /\ after.status = "pending"
                 /\ after.assignedTo = NoOwner
                 /\ after.callAttempts # <<>> => LastAttempt(after).status = "call_failed"]_vars

\* C25 witness: an abandon with a reason the table does not know has been
\* answered for an entry that was called: its last attempt is labelled
\* call_failed and the entry is pending.
C25_Witness ==
  \E r \in Reqs :
     /\ AbandonDone(r) /\ req[r].reason = "unrecognized"
     /\ queue[req[r].qid].status = "pending"
     /\ queue[req[r].qid].callAttempts # <<>>
     /\ LastAttempt(queue[req[r].qid]).status = "call_failed"

\* C26: abandon goes ahead exactly when the entry is owned by the caller or
\* by nobody; for an entry owned by another interviewer it is answered
\* Forbidden and the entry is unchanged.
C26_AbandonOwnership ==
  [][\A r \in Reqs, i \in Interviewers, q \in DOMAIN queue, a \in AbandonTable :
       AbandonLoad(r, i, q, a[1], a[2], 1, MaxTime) =>
         IF queue[q].assignedTo \in {NoOwner, i}
         THEN req'[r].pc = "abandon_save"
         ELSE req'[r].pc = "done" /\ req'[r].res = "forbidden" /\ queue' = queue]_vars

\* C26 witness: an abandon of an entry assigned to the other interviewer has
\* been answered Forbidden.
C26_Witness ==
  \E r \in Reqs :
     /\ req[r].op = "abandon" /\ req[r].pc = "done" /\ req[r].res = "forbidden"
     /\ \E q \in DOMAIN queue : queue[q].status \in {"assigned", "calling"}

\* C27: when the provider accepts the call for an entry owned by the caller,
\* the save leaves the entry calling with the same owner and the attempt
\* counter one higher, and one more attempt is logged as initiated with the
\* provider's call id.
C27_AcceptedCall ==
  [][\A r \in Reqs :
       CallResult(r, "accepted") =>
         LET before == queue[req[r].qid]
             after == queue'[req[r].qid]
         IN /\ after.status = "calling"
            /\ after.assignedTo = req[r].by
            /\ after.assignedTo = before.assignedTo
            /\ after.currentAttemptNumber = before.currentAttemptNumber + 1
            /\ Len(after.callAttempts) = Len(before.callAttempts) + 1
            /\ LastAttempt(after).status = "initiated"
            /\ LastAttempt(after).callId # 0
            /\ LastAttempt(after).callId = initiateDeepCall("accepted").callId
            /\ req'[r].pc = "done" /\ req'[r].res = "ok"]_vars

\* C27 witness: an accepted call has been answered and its entry is calling,
\* owned by the caller, with an initiated attempt.
C27_Witness ==
  \E r \in Reqs :
     /\ req[r].op = "call" /\ req[r].pc = "done" /\ req[r].res = "ok"
     /\ queue[req[r].qid].status = "calling"
     /\ queue[req[r].qid].assignedTo = req[r].by
     /\ LastAttempt(queue[req[r].qid]).status = "initiated"

\* C28: complete marks an entry interview_success, linked to the response
\* and stamped with the completion time, only when the entry's status at
\* that moment is calling.
C28_SuccessOnlyFromCalling ==
  [][\A r \in Reqs :
       CompleteFinish(r, "none") =>
         /\ queue[req[r].qid].status = "calling"
         /\ queue'[req[r].qid].status = "interview_success"
         /\ queue'[req[r].qid].response = req[r].rid
         /\ queue'[req[r].qid].completedAt = now]_vars

\* C29: a complete call for an absent entry, for an entry the caller does
\* not own, or with an absent session is answered at once, not as a success,
\* and no queue entry, response or set record is created or changed.
C29_AbortWritesNothing ==
  [][\A r \in Reqs, i \in Interviewers, q \in QueueIds, sid \in SessionIds, p \in Payloads :
       ( /\ CompleteLoad(r, i, q, sid, p, 1, MaxTime)
         /\ \/ q \notin DOMAIN queue
            \/ queue[q].assignedTo # i
            \/ sid \notin DOMAIN sessions ) =>
         /\ req'[r].pc = "done" /\ req'[r].res # "ok"
         /\ queue' = queue /\ responses' = responses /\ setData' = setData]_vars

\* C29 witness: a complete call has been refused for want of ownership or
\* of a session while an entry is assigned and nothing has been recorded.
C29_Witness ==
  \E r \in Reqs :
     /\ req[r].op = "complete" /\ req[r].pc = "done"
     /\ req[r].res \in {"forbidden", "not_found"}
     /\ \E q \in DOMAIN queue : queue[q].status = "assigned"
     /\ responses = <<>> /\ setData = <<>>

\* C30: a complete call that has written its response is answered as a
\* success and its entry is interview_success, whichever of the forced
\* setNumber update, the evaluation, the hand-off and the SetData upsert
\* failed, for a created and for an updated response.
C30_FailuresDoNotAbort ==
  \A r \in Reqs :
     (req[r].op = "complete" /\ req[r].pc = "done" /\ req[r].rid # 0) =>
        /\ req[r].res = "ok"
        /\ queue[req[r].qid].status = "interview_success"

C34_StartSparesOthers ==
  [][\A r \in Reqs :
       (initializeRespondentQueue(r) \/ ClaimSave(r)) =>
         \A e \in DOMAIN queue :
            ( /\ queue[e].status \in {"assigned", "calling"}
              /\ queue[e].assignedTo \notin {NoOwner, req[r].by} ) =>
              /\ queue'[e].status = queue[e].status
              /\ queue'[e].assignedTo = queue[e].assignedTo]_vars

\* C36: an entry leaves pending only for assigned: no step takes a pending
\* entry to any other status.
C36_PendingOnlyToAssigned ==
  [][\A e \in DOMAIN queue :
       (queue[e].status = "pending" /\ queue'[e].status # "pending") =>
          queue'[e].status = "assigned"]_vars

\* C37: in every state each entry's attempt counter is the length of its
\* attempt log and the log's records are numbered 1..n in order.
C37_CounterMatchesLog ==
  \A e \in DOMAIN queue :
     /\ queue[e].currentAttemptNumber = Len(queue[e].callAttempts)
     /\ \A k \in DOMAIN queue[e].callAttempts :
          queue[e].callAttempts[k].attemptNumber = k

\* C38: no response is handed to the quality-review intake more than once.
C38_HandedOffOnce ==
  \A j, k \in DOMAIN qcBatch : qcBatch[j] = qcBatch[k] => j = k

\* C39: after an answered complete the response is Rejected and flagged
\* auto-rejected exactly when the evaluation of that call returned a reason.
C39_RejectedIffVerdict ==
  \A r \in Reqs : CompleteDone(r) =>
     /\ responses[req[r].rid].status = "Rejected" <=> req[r].rejected
     /\ responses[req[r].rid].autoRejected <=> req[r].rejected

\* C40: an entry in interview_success has a completion time and a link to a
\* response that is in the store.
C40_SuccessLinked ==
  \A e \in DOMAIN queue :
     queue[e].status = "interview_success" =>
        /\ queue[e].completedAt # 0
        /\ queue[e].response \in DOMAIN responses

\* C40 witness: after an entry was completed, a start request for its survey
\* ran the initializer's reset and found nothing pending; the entry is still
\* interview_success and linked.
C40_Witness ==
  \E r \in Reqs : \E e \in DOMAIN queue :
     /\ req[r].op = "start" /\ req[r].pc = "done" /\ req[r].res = "no_pending"
     /\ queue[e].survey = req[r].survey
     /\ queue[e].status = "interview_success"
     /\ queue[e].response \in DOMAIN responses

\* C35: when the start request answers a failure after it saved the
\* assignment, the entry it assigned is pending and unowned again.
C35_FailedStartRestores ==
  [][\A r \in Reqs :
       (ClaimSave(r) /\ req'[r].res # "handed") =>
          /\ queue'[req[r].qid].status = "pending"
          /\ queue'[req[r].qid].assignedTo = NoOwner]_vars

Classified(r) == req[r].op = "initiateDeepCall" /\ req[r].pc = "done"

\* C32: a response body is classified as success only when its status is
\* not error, failed or failure and it carries one of the recognized
\* success codes; every other body is a failure carrying a message.
C32_SuccessNeedsCode ==
  \A r \in Reqs : Classified(r) =>
     LET apiResponse == req[r].payload
         result == req[r].rdoc
     IN /\ result.success =>
             /\ ~isExplicitErrorStatus(apiResponse)
             /\ codeOf(apiResponse) \in {string(<<"0">>), number(0),
                                         string(<<"2", "0", "0">>), number(200)}
        /\ ~result.success => result.message # ""

\* C31: every entry that is pending is eventually claimed.
C31_NoStarvation ==
  \A e \in 1..(2 * MaxContacts) :
     (e \in DOMAIN queue /\ queue[e].status = "pending")
        ~> (e \in DOMAIN queue /\ queue[e].status = "assigned")

====
